---- MODULE Spec2Model ----
(***************************************************************************)
(* Model of the agent coordination layer (src/core/coordination.ts) and    *)
(* of the Convex functions it calls (convex/tasks.ts,                      *)
(* convex/agentSessions.ts).                                               *)
(*                                                                         *)
(* One pipeline call (orchestrateAgents or resumeOrchestration) is in      *)
(* flight at a time.  Every await of the code is one step of the model,    *)
(* so the process can be interrupted (Crash) between any two store calls.  *)
(* Optional values (undefined in the code) are sequences of length 0 or 1. *)
(* Date.now() is the variable now: an agent invocation takes time, a store *)
(* round trip need not, so records inserted with no invocation in between  *)
(* can carry the same timestamp.                                           *)
(* invocations, setErrorCalls and created record what the call in flight   *)
(* has done; reported records the code changes each session's agent        *)
(* reported.  None of them is read by the modelled code.                   *)
(* Spec is the program over a store whose calls all succeed; SpecFault     *)
(* lets up to MaxFaults store calls of a behaviour reject.                 *)
(* tables holds the plans, codeChanges and reviews tables, written by the  *)
(* agents' own persistence step.  SpecOptions runs the calls with any      *)
(* dryRun flag and agent task id and lets that step be rejected.           *)
(* SpecStore starts from a tasks table that already holds tasks and takes  *)
(* the handlers of convex/tasks.ts one call at a time.                     *)
(* SpecConcurrent runs two calls against one store: parked holds the call  *)
(* that is not running, and Switch hands the processor from one call to    *)
(* the other between two awaits.  SpecFull runs the calls with all three   *)
(* stages and room for one more session than Spec; SpecFullFault adds the  *)
(* rejected store calls of SpecFault to it.                                *)
(***************************************************************************)
EXTENDS Integers, Sequences, FiniteSets, TLC

\* ---- bounds ------------------------------------------------------------
MaxSessions == 3
MaxTasks == 2
MaxCalls == 2
\* store calls that may reject in one behaviour of SpecFault
MaxFaults == 1

\* tasks a store holds before the first call
MaxStored == 2

\* times the scheduler moves from one call to the other
MaxSwitches == 1

\* ---- optional values ---------------------------------------------------
None == <<>>

Some(x) == <<x>>

\* JavaScript truthiness of an optional string: undefined and '' are falsy.
Truthy(o) == o # None /\ o[1] # ""

\* a ?? b on an optional string
Coalesce(o, d) == IF o = None THEN d ELSE o[1]

\* ---- inputs ------------------------------------------------------------
Roles == {"planner", "coder", "reviewer"}

RoleIdx(r) == CASE r = "planner" -> 1 [] r = "coder" -> 2 [] r = "reviewer" -> 3

\* result.content of a successful agent
Contents == {"", "A"}

\* result.error of an agent that reports a failure (None: no error field)
FailErrors == {None, Some("E")}

\* what an agent throws: an Error with a message, or one with an empty message
ThrowKinds == {Some("E"), Some("")}

\* metadata?.codeChanges of a coder result
ChangeLists == {None, Some(<<"ch1">>)}

\* the agents record handed to a call
AgentSets == {{"planner", "coder", "reviewer"}, {"planner", "coder"}, {"coder", "reviewer"}}

\* skipReview, planOnly and the agents handed to a call
Configs == [skipReview : BOOLEAN, planOnly : BOOLEAN, agents : AgentSets]

\* all three agents, skipReview and no planOnly
FullConfigs == [skipReview : {TRUE}, planOnly : {FALSE}, agents : {Roles}]

\* executionOptions.dryRun, and config.taskId of the agents handed to a call
\* (the CLI constructs its agents without one)
AgentTaskIds == {None, Some(1)}

Options == [dryRun : BOOLEAN, agentTaskId : AgentTaskIds]

\* the options of the CLI: no dry run, agents without a task id
DefaultOptions == {[dryRun |-> FALSE, agentTaskId |-> None]}

VARIABLES tasks, sessions, now, call, calls, invocations, setErrorCalls, created,
          reported, faultsLeft, tables, parked

vars == <<tasks, sessions, now, call, calls, invocations, setErrorCalls, created,
          reported, faultsLeft, tables, parked>>

\* ---- convex/tasks.ts ---------------------------------------------------
\* a missing count stands for one earlier failure
OrZero_MissingIsOne(rc) == IF rc = None THEN 1 ELSE rc[1]

\* task.retryCount || 0: the field is optional in the schema
OrZero(rc) == IF rc = None THEN 0 ELSE rc[1]

createTask(ts, t) ==
    Append(ts, [status |-> "pending", error |-> None, retryCount |-> Some(0),
                createdAt |-> t])

\* the status write is lost
updateTaskStatus_Lost(ts, id, st) == ts

updateTaskStatus(ts, id, st) == [ts EXCEPT ![id].status = st]

\* the error is stored but the status is left as it was
setTaskError_KeepsStatus(ts, id, e) ==
    [ts EXCEPT ![id].error = Some(e), ![id].retryCount = Some(OrZero(@) + 1)]

setTaskError(ts, id, e) ==
    [ts EXCEPT ![id].error = Some(e), ![id].status = "failed",
               ![id].retryCount = Some(OrZero(@) + 1)]

\* the error is removed but the status is left as it was
clearTaskError_KeepsStatus(ts, id) == [ts EXCEPT ![id].error = None]

clearTaskError(ts, id) == [ts EXCEPT ![id].error = None, ![id].status = "pending"]

\* position of a status in the by_status index (string order)
StatusRank(st) ==
    CASE st = "coding" -> 1 [] st = "completed" -> 2 [] st = "failed" -> 3
      [] st = "pending" -> 4 [] st = "planning" -> 5 [] st = "reviewing" -> 6

\* a comes before b in the by_status index: (status, creation order)
IndexBefore(ts, a, b) ==
    \/ StatusRank(ts[a].status) < StatusRank(ts[b].status)
    \/ StatusRank(ts[a].status) = StatusRank(ts[b].status) /\ a < b

\* the filter on the status is missing: the latest task of any status
getLatestIncompleteTask_AnyStatus(ts) ==
    LET inc == DOMAIN ts
    IN IF inc = {} THEN 0
       ELSE CHOOSE i \in inc :
              \A j \in inc \ {i} :
                 \/ ts[i].createdAt > ts[j].createdAt
                 \/ ts[i].createdAt = ts[j].createdAt /\ IndexBefore(ts, i, j)

\* the sort is ascending: the oldest incomplete task
getLatestIncompleteTask_Oldest(ts) ==
    LET inc == {i \in DOMAIN ts : ts[i].status # "completed"}
    IN IF inc = {} THEN 0
       ELSE CHOOSE i \in inc :
              \A j \in inc \ {i} :
                 \/ ts[i].createdAt < ts[j].createdAt
                 \/ ts[i].createdAt = ts[j].createdAt /\ IndexBefore(ts, i, j)

\* tasks[0] after the filter and the stable sort by createdAt descending;
\* 0 stands for null
getLatestIncompleteTask(ts) ==
    LET inc == {i \in DOMAIN ts : ts[i].status # "completed"}
    IN IF inc = {} THEN 0
       ELSE CHOOSE i \in inc :
              \A j \in inc \ {i} :
                 \/ ts[i].createdAt > ts[j].createdAt
                 \/ ts[i].createdAt = ts[j].createdAt /\ IndexBefore(ts, i, j)

\* ---- convex/agentSessions.ts -------------------------------------------
\* the session is inserted as running
createAgentSession_Running(ss, taskId, agentType, t) ==
    Append(ss, [taskId |-> taskId, agentType |-> agentType, status |-> "running",
                result |-> None, startedAt |-> t])

createAgentSession(ss, taskId, agentType, t) ==
    Append(ss, [taskId |-> taskId, agentType |-> agentType, status |-> "pending",
                result |-> None, startedAt |-> t])

startAgentSession(ss, id) == [ss EXCEPT ![id].status = "running"]

\* the result is stored but the session stays running
completeAgentSession_StaysRunning(ss, id, result) ==
    [ss EXCEPT ![id].result = Some(result)]

completeAgentSession(ss, id, result) ==
    [ss EXCEPT ![id].result = Some(result), ![id].status = "completed"]

failAgentSession(ss, id, error) ==
    [ss EXCEPT ![id].result = Some(error), ![id].status = "failed"]

RECURSIVE SortByStartedAtDesc(_, _)
\* stable sort of a set of session ids by startedAt descending
SortByStartedAtDesc(ss, ids) ==
    IF ids = {} THEN <<>>
    ELSE LET first == CHOOSE i \in ids :
                        \A j \in ids \ {i} :
                           \/ ss[i].startedAt > ss[j].startedAt
                           \/ ss[i].startedAt = ss[j].startedAt /\ i < j
         IN <<first>> \o SortByStartedAtDesc(ss, ids \ {first})

\* the session ids of a task, most recent first
getAgentSessionsByTask(ss, taskId) ==
    SortByStartedAtDesc(ss, {i \in DOMAIN ss : ss[i].taskId = taskId})

\* ---- convex/plans.ts, and the tables no function writes ----------------
\* the plans, codeChanges and reviews tables
NoRecords == [plans |-> <<>>, codeChanges |-> <<>>, reviews |-> <<>>]

\* plans/store
storePlan(tb, taskId, content, t) ==
    [tb EXCEPT !.plans = Append(@, [taskId |-> taskId, content |-> content,
                                    createdAt |-> t])]

\* ---- src/agents/planner.ts, coder.ts, reviewer.ts ----------------------
\* dryRun is not consulted
ShouldStore_IgnoresDryRun(dryRun, agentTaskId) == agentTaskId # None

\* the guard of the agents' own persistence step
ShouldStore(dryRun, agentTaskId) == ~dryRun /\ agentTaskId # None

\* the persistence step of a successful agent.  Only the planner issues a
\* mutation (plans/store); the coder and the reviewer obtain the client and
\* log.  A failure of the step is caught and logged by the agent.
Persist(tb, role, agentTaskId, content, t, p) ==
    IF p = "stored" /\ role = "planner"
    THEN storePlan(tb, agentTaskId[1], content, t)
    ELSE tb

\* a rejected write makes the agent report a failure
AfterStore_Propagates(o, p) ==
    IF p = "rejected"
    THEN [kind |-> "fail", content |-> "", error |-> Some("store error"),
          codeChanges |-> None]
    ELSE o

\* what agent.execute returns once the persistence step is over: the step
\* catches its own errors, the outcome of the agent's work stands
AfterStore(o, p) == o

\* ---- src/agents/base.ts ------------------------------------------------
createSuccessResult(agentType, content, changes) ==
    [agentType |-> agentType, success |-> TRUE, content |-> content,
     error |-> None, codeChanges |-> changes]

createFailureResult(agentType, error) ==
    [agentType |-> agentType, success |-> FALSE, content |-> "",
     error |-> error, codeChanges |-> None]

\* what one agent.execute call can do: return a success result, return a
\* failure result, or throw
Outcomes(role) ==
    {[kind |-> "ok", content |-> c, error |-> None, codeChanges |-> ch] :
        c \in Contents, ch \in IF role = "coder" THEN ChangeLists ELSE {None}}
    \cup {[kind |-> "fail", content |-> "", error |-> e, codeChanges |-> None] :
        e \in FailErrors}
    \cup {[kind |-> "throw", content |-> "", error |-> t, codeChanges |-> None] :
        t \in ThrowKinds}

\* ---- src/core/coordination.ts: helpers ---------------------------------
\* resultToSession: what a later stage sees of an earlier result
resultToSession(r) ==
    [agentType |-> r.agentType,
     status |-> IF r.success THEN "completed" ELSE "failed",
     result |-> r.content, error |-> r.error]

MapSessions(rs) == [i \in DOMAIN rs |-> resultToSession(rs[i])]

\* the context object of the planner stage of orchestrateAgents
OrchPlannerContext == [plan |-> None, codeChanges |-> None, previousSessions |-> <<>>]

\* the context object of the coder stage of orchestrateAgents
OrchCoderContext(planContext, agentResults) ==
    [plan |-> planContext, codeChanges |-> None,
     previousSessions |-> MapSessions(agentResults)]

\* the context object of the reviewer stage of orchestrateAgents
OrchReviewerContext(planContext, codeChanges, agentResults) ==
    [plan |-> planContext, codeChanges |-> Some(codeChanges),
     previousSessions |-> MapSessions(agentResults)]

\* the metadata of the coder result is never read
ExtractCodeChanges_Ignored(old, r) == old

\* codeChanges after a successful coder stage: replaced when the metadata
\* carries a list
ExtractCodeChanges(old, r) == IF r.codeChanges # None THEN r.codeChanges[1] ELSE old

\* the reviewer is never required
ValidateAgents_NoReviewerCheck(agents, skipReview, planOnly) ==
    IF "planner" \notin agents \/ "coder" \notin agents
    THEN Some("Planner and Coder agents are required")
    ELSE None

\* the validation at the top of orchestrateAgents; None when it passes
ValidateAgents(agents, skipReview, planOnly) ==
    IF "planner" \notin agents \/ "coder" \notin agents
    THEN Some("Planner and Coder agents are required")
    ELSE IF ~skipReview /\ ~planOnly /\ "reviewer" \notin agents
    THEN Some("Reviewer agent is required when not skipping review")
    ELSE None

\* the thrown value's message is dropped
CaughtMessage_Unknown(thrown, fallback) == fallback

\* the message the catch blocks derive from a thrown value
CaughtMessage(thrown, fallback) == IF thrown # None THEN thrown[1] ELSE fallback

\* ---- the call in flight ------------------------------------------------
NoContext == OrchPlannerContext

NoCall ==
    [kind |-> "none", pc |-> "idle", taskId |-> 0, skipReview |-> FALSE,
     planOnly |-> FALSE, agents |-> {}, role |-> "none", sessionId |-> 0,
     out |-> None, res |-> None, agentResults |-> <<>>, planContext |-> None,
     codeChanges |-> <<>>, toExec |-> <<>>, ctx |-> NoContext, thrown |-> None,
     dryRun |-> FALSE, agentTaskId |-> None, persist |-> "none", ret |-> None]

\* a second call, suspended at an await, with what it has done so far
NoParked ==
    [call |-> NoCall, invocations |-> <<>>, setErrorCalls |-> 0, created |-> <<>>,
     switches |-> 0]

Returned(c, status, error) ==
    [c EXCEPT !.pc = "done", !.ret = Some([status |-> status, error |-> error])]

Init ==
    /\ tasks = <<>>
    /\ sessions = <<>>
    /\ now = 0
    /\ calls = 0
    /\ call = NoCall
    /\ invocations = <<>>
    /\ setErrorCalls = 0
    /\ created = <<>>
    /\ reported = <<>>
    /\ faultsLeft = 0
    /\ tables = NoRecords
    /\ parked = NoParked

CanStartCall == call.pc \in {"idle", "done"} /\ calls < MaxCalls

\* ---- executeAgent ------------------------------------------------------
\* agentSessions/createAgentSession, while the table holds fewer than cap
ExecCreateSessionUpTo(cap) ==
    /\ call.pc = "ea_create"
    /\ Len(sessions) < cap
    /\ sessions' = createAgentSession(sessions, call.taskId, call.role, now)
    /\ call' = [call EXCEPT !.pc = "ea_start", !.sessionId = Len(sessions) + 1]
    /\ created' = Append(created, Len(sessions) + 1)
    /\ reported' = Append(reported, None)
    /\ UNCHANGED <<parked, faultsLeft, tables, tasks, now, calls, invocations, setErrorCalls>>

\* a failed session of the same task and role is reset and used again
ExecCreateSession_Reuse ==
    /\ call.pc = "ea_create"
    /\ Len(sessions) < MaxSessions
    /\ LET old == {i \in DOMAIN sessions :
                       /\ sessions[i].taskId = call.taskId
                       /\ sessions[i].agentType = call.role
                       /\ sessions[i].status = "failed"}
           id == IF old = {} THEN Len(sessions) + 1 ELSE CHOOSE i \in old : TRUE
       IN /\ sessions' = IF old = {}
                         THEN createAgentSession(sessions, call.taskId, call.role, now)
                         ELSE [sessions EXCEPT ![id].status = "pending",
                                               ![id].result = None]
          /\ call' = [call EXCEPT !.pc = "ea_start", !.sessionId = id]
          /\ created' = Append(created, id)
          /\ reported' = IF old = {} THEN Append(reported, None) ELSE reported
    /\ UNCHANGED <<parked, faultsLeft, tables, tasks, now, calls, invocations, setErrorCalls>>

\* agentSessions/createAgentSession
ExecCreateSession == ExecCreateSessionUpTo(MaxSessions)

\* agentSessions/startAgentSession
ExecStartSession ==
    /\ call.pc = "ea_start"
    /\ sessions' = startAgentSession(sessions, call.sessionId)
    /\ reported' = reported
    /\ call' = [call EXCEPT !.pc = "ea_execute"]
    /\ UNCHANGED <<parked, faultsLeft, tables, tasks, now, calls, invocations, setErrorCalls, created>>

\* agent.execute(context, options), the agent's own persistence step
\* included; rejects holds what that step can do (FALSE: it succeeds)
ExecInvokeWith(rejects) ==
    /\ call.pc = "ea_execute"
    /\ \E o \in Outcomes(call.role), rejected \in rejects :
          LET p == IF o.kind = "ok" /\ ShouldStore(call.dryRun, call.agentTaskId)
                   THEN (IF rejected THEN "rejected" ELSE "stored")
                   ELSE "none"
          IN /\ call' = [call EXCEPT !.pc = "ea_finish", !.out = Some(AfterStore(o, p)),
                                       !.persist = p]
             /\ tables' = Persist(tables, call.role, call.agentTaskId, o.content, now, p)
             /\ invocations' = Append(invocations,
                                  [role |-> call.role, ctx |-> call.ctx, persist |-> p])
    /\ now' = now + 1
    /\ UNCHANGED <<parked, faultsLeft, tasks, sessions, reported, calls, setErrorCalls, created>>

\* agent.execute over a store that accepts the agent's writes
ExecInvokeAgent == ExecInvokeWith({FALSE})

\* agent.execute over a store that may reject the agent's writes
ExecInvokeAgentStoreMayFail == ExecInvokeWith(BOOLEAN)

\* under dryRun the completion write of a successful stage is skipped
ExecFinish_DryRunSkips ==
    /\ call.pc = "ea_finish"
    /\ LET o == call.out[1]
           msg == CaughtMessage(o.error, "Unknown error")
       IN CASE o.kind = "ok" ->
                 /\ sessions' = IF call.dryRun THEN sessions
                                 ELSE completeAgentSession(sessions, call.sessionId, o.content)
                 /\ call' = [call EXCEPT !.pc = "after",
                        !.res = Some(createSuccessResult(call.role, o.content, o.codeChanges))]
            [] o.kind = "fail" ->
                 /\ sessions' = failAgentSession(sessions, call.sessionId,
                                      Coalesce(o.error, "Agent execution failed"))
                 /\ call' = [call EXCEPT !.pc = "after",
                        !.res = Some(createFailureResult(call.role, o.error))]
            [] o.kind \in {"throw", "caught"} ->
                 /\ sessions' = failAgentSession(sessions, call.sessionId, msg)
                 /\ call' = [call EXCEPT !.pc = "after",
                        !.res = Some(createFailureResult(call.role, Some(msg)))]
    /\ reported' = [reported EXCEPT ![call.sessionId] = call.out[1].codeChanges]
    /\ UNCHANGED <<parked, faultsLeft, tables, tasks, now, calls, invocations, setErrorCalls, created>>

\* a rejected terminal session write is ignored: the result stands
ExecFinish_WriteErrorIgnored ==
    /\ call.pc = "ea_finish"
    /\ LET o == call.out[1]
           msg == CaughtMessage(o.error, "Unknown error")
       IN CASE o.kind = "ok" ->
                 /\ sessions' = completeAgentSession(sessions, call.sessionId, o.content)
                 /\ call' = [call EXCEPT !.pc = "after",
                        !.res = Some(createSuccessResult(call.role, o.content, o.codeChanges))]
            [] o.kind = "fail" ->
                 /\ sessions' = failAgentSession(sessions, call.sessionId,
                                      Coalesce(o.error, "Agent execution failed"))
                 /\ call' = [call EXCEPT !.pc = "after",
                        !.res = Some(createFailureResult(call.role, o.error))]
            [] o.kind = "caught" ->
                 /\ sessions' = sessions
                 /\ call' = [call EXCEPT !.pc = "after",
                        !.res = Some(createSuccessResult(call.role, o.content, o.codeChanges))]
            [] o.kind = "throw" ->
                 /\ sessions' = failAgentSession(sessions, call.sessionId, msg)
                 /\ call' = [call EXCEPT !.pc = "after",
                        !.res = Some(createFailureResult(call.role, Some(msg)))]
    /\ reported' = [reported EXCEPT ![call.sessionId] = call.out[1].codeChanges]
    /\ UNCHANGED <<parked, faultsLeft, tables, tasks, now, calls, invocations, setErrorCalls, created>>

\* the terminal session write and the value executeAgent returns
ExecFinish ==
    /\ call.pc = "ea_finish"
    /\ LET o == call.out[1]
           msg == CaughtMessage(o.error, "Unknown error")
       IN CASE o.kind = "ok" ->
                 /\ sessions' = completeAgentSession(sessions, call.sessionId, o.content)
                 /\ call' = [call EXCEPT !.pc = "after",
                        !.res = Some(createSuccessResult(call.role, o.content, o.codeChanges))]
            [] o.kind = "fail" ->
                 /\ sessions' = failAgentSession(sessions, call.sessionId,
                                      Coalesce(o.error, "Agent execution failed"))
                 /\ call' = [call EXCEPT !.pc = "after",
                        !.res = Some(createFailureResult(call.role, o.error))]
            [] o.kind \in {"throw", "caught"} ->
                 /\ sessions' = failAgentSession(sessions, call.sessionId, msg)
                 /\ call' = [call EXCEPT !.pc = "after",
                        !.res = Some(createFailureResult(call.role, Some(msg)))]
    /\ reported' = [reported EXCEPT ![call.sessionId] = call.out[1].codeChanges]
    /\ UNCHANGED <<parked, faultsLeft, tables, tasks, now, calls, invocations, setErrorCalls, created>>

\* ---- orchestrateAgents -------------------------------------------------
\* validation, tasks/createTask, and the planner's context
OrchestrateFor(configs, options) ==
    /\ CanStartCall
    /\ Len(tasks) < MaxTasks
    /\ \E cfg \in configs, opt \in options :
          LET skipReview == cfg.skipReview
              planOnly == cfg.planOnly
              agents == cfg.agents
              c == [NoCall EXCEPT !.kind = "run", !.skipReview = skipReview,
                                  !.planOnly = planOnly, !.agents = agents,
                                  !.dryRun = opt.dryRun,
                                  !.agentTaskId = opt.agentTaskId]
              invalid == ValidateAgents(agents, skipReview, planOnly)
          IN IF invalid # None
             THEN /\ call' = Returned(c, "threw", invalid)
                  /\ tasks' = tasks
             ELSE /\ tasks' = createTask(tasks, now)
                  /\ call' = [c EXCEPT !.pc = "ea_create", !.taskId = Len(tasks) + 1,
                                       !.role = "planner", !.ctx = OrchPlannerContext]
    /\ invocations' = <<>>
    /\ setErrorCalls' = 0
    /\ created' = <<>>
    /\ calls' = calls + 1
    /\ UNCHANGED <<parked, faultsLeft, tables, sessions, reported, now>>

\* orchestrateAgents with any skipReview, planOnly and agents
OrchestrateWith(options) == OrchestrateFor(Configs, options)

\* orchestrateAgents as the CLI calls it
OrchestrateStart == OrchestrateWith(DefaultOptions)

\* orchestrateAgents with any executionOptions and agent configuration
OrchestrateStartAnyOptions == OrchestrateWith(Options)

\* the success flag is never tested
ResultFailed_Never(r) == FALSE

\* the test after each stage: if (!result.success)
ResultFailed(r) == ~r.success

\* a stage returned a failure: tasks/setTaskError and the Failed result
StageFailed(c, r, fallback) ==
    /\ tasks' = setTaskError(tasks, c.taskId, Coalesce(r.error, fallback))
    /\ setErrorCalls' = setErrorCalls + 1
    /\ call' = Returned(c, "failed", r.error)

\* after the planner: failure handling, or planContext and status planning
OrchAfterPlanner ==
    /\ call.kind = "run" /\ call.pc = "after" /\ call.role = "planner"
    /\ LET r == call.res[1]
           c == [call EXCEPT !.agentResults = Append(@, r), !.res = None]
       IN IF ResultFailed(r)
          THEN StageFailed(c, r, "Planner agent failed")
          ELSE /\ tasks' = updateTaskStatus(tasks, call.taskId, "planning")
               /\ call' = [c EXCEPT !.pc = "o_planned", !.planContext = Some(r.content)]
               /\ UNCHANGED setErrorCalls
    /\ UNCHANGED <<parked, faultsLeft, tables, sessions, reported, now, calls, invocations, created>>

\* planOnly is not consulted: the coder stage always follows
OrchBeforeCoder_IgnoresPlanOnly ==
    /\ call.kind = "run" /\ call.pc = "o_planned"
    /\ tasks' = updateTaskStatus(tasks, call.taskId, "coding")
    /\ call' = [call EXCEPT !.pc = "ea_create", !.role = "coder",
                  !.ctx = OrchCoderContext(call.planContext, call.agentResults)]
    /\ UNCHANGED <<parked, faultsLeft, tables, sessions, reported, now, calls, invocations, setErrorCalls,
                   created>>

\* plan-only stop, or status coding and the coder's context
OrchBeforeCoder ==
    /\ call.kind = "run" /\ call.pc = "o_planned"
    /\ IF call.planOnly
       THEN /\ tasks' = updateTaskStatus(tasks, call.taskId, "completed")
            /\ call' = Returned(call, "completed", None)
       ELSE /\ tasks' = updateTaskStatus(tasks, call.taskId, "coding")
            /\ call' = [call EXCEPT !.pc = "ea_create", !.role = "coder",
                          !.ctx = OrchCoderContext(call.planContext, call.agentResults)]
    /\ UNCHANGED <<parked, faultsLeft, tables, sessions, reported, now, calls, invocations, setErrorCalls, created>>

\* after the coder: failure handling, or codeChanges and status coding again
OrchAfterCoder ==
    /\ call.kind = "run" /\ call.pc = "after" /\ call.role = "coder"
    /\ LET r == call.res[1]
           c == [call EXCEPT !.agentResults = Append(@, r), !.res = None]
       IN IF ResultFailed(r)
          THEN StageFailed(c, r, "Coder agent failed")
          ELSE /\ tasks' = updateTaskStatus(tasks, call.taskId, "coding")
               /\ call' = [c EXCEPT !.pc = "o_coded",
                                    !.codeChanges = ExtractCodeChanges(@, r)]
               /\ UNCHANGED setErrorCalls
    /\ UNCHANGED <<parked, faultsLeft, tables, sessions, reported, now, calls, invocations, created>>

\* skip-review stop, or status reviewing and the reviewer's context
OrchBeforeReviewer ==
    /\ call.kind = "run" /\ call.pc = "o_coded"
    /\ IF call.skipReview
       THEN /\ tasks' = updateTaskStatus(tasks, call.taskId, "completed")
            /\ call' = Returned(call, "completed", None)
       ELSE /\ tasks' = updateTaskStatus(tasks, call.taskId, "reviewing")
            /\ call' = [call EXCEPT !.pc = "ea_create", !.role = "reviewer",
                          !.ctx = OrchReviewerContext(call.planContext, call.codeChanges,
                                                      call.agentResults)]
    /\ UNCHANGED <<parked, faultsLeft, tables, sessions, reported, now, calls, invocations, setErrorCalls, created>>

\* after the reviewer: failure handling, or status completed
OrchAfterReviewer ==
    /\ call.kind = "run" /\ call.pc = "after" /\ call.role = "reviewer"
    /\ LET r == call.res[1]
           c == [call EXCEPT !.agentResults = Append(@, r), !.res = None]
       IN IF ResultFailed(r)
          THEN StageFailed(c, r, "Reviewer agent failed")
          ELSE /\ tasks' = updateTaskStatus(tasks, call.taskId, "completed")
               /\ call' = Returned(c, "completed", None)
               /\ UNCHANGED setErrorCalls
    /\ UNCHANGED <<parked, faultsLeft, tables, sessions, reported, now, calls, invocations, created>>

\* ---- resumeOrchestration -----------------------------------------------
\* the test that makes a stored session count as done
IsCompletedSession(s) == s.status = "completed" /\ Truthy(s.result)

\* the AgentResult rebuilt from a stored session (it has no metadata)
SessionResult(s) == createSuccessResult(s.agentType, s.result[1], None)

RECURSIVE LoadSessions(_, _, _)
\* the loop over the loaded sessions: acc holds agentResults, planContext,
\* codeChanges and completedAgents
LoadSessions(ss, order, acc) ==
    IF order = <<>> THEN acc
    ELSE LET s == ss[Head(order)]
             r == SessionResult(s)
         IN IF IsCompletedSession(s)
            THEN LoadSessions(ss, Tail(order),
                   [agentResults |-> Append(acc.agentResults, r),
                    completedAgents |-> acc.completedAgents \cup {s.agentType},
                    planContext |-> IF s.agentType = "planner" THEN Some(s.result[1])
                                    ELSE acc.planContext,
                    codeChanges |-> IF s.agentType = "coder"
                                    THEN ExtractCodeChanges(acc.codeChanges, r)
                                    ELSE acc.codeChanges])
            ELSE LoadSessions(ss, Tail(order), acc)

\* skipReview is not consulted
AgentsToExecute_IgnoresSkip(completedAgents, skipReview, agents) ==
    (IF "planner" \notin completedAgents THEN <<"planner">> ELSE <<>>)
    \o (IF "coder" \notin completedAgents THEN <<"coder">> ELSE <<>>)
    \o (IF "reviewer" \notin completedAgents /\ "reviewer" \in agents
        THEN <<"reviewer">> ELSE <<>>)

\* agentsToExecute
AgentsToExecute(completedAgents, skipReview, agents) ==
    (IF "planner" \notin completedAgents THEN <<"planner">> ELSE <<>>)
    \o (IF "coder" \notin completedAgents THEN <<"coder">> ELSE <<>>)
    \o (IF ~skipReview /\ "reviewer" \notin completedAgents /\ "reviewer" \in agents
        THEN <<"reviewer">> ELSE <<>>)

\* the plan is handed to the reviewer only
ResumeContext_NoPlanForCoder(agentType, planContext, codeChanges, agentResults) ==
    [plan |-> IF agentType = "reviewer" /\ planContext # None THEN planContext ELSE None,
     codeChanges |-> IF agentType = "reviewer" /\ Len(codeChanges) > 0
                     THEN Some(codeChanges) ELSE None,
     previousSessions |-> [i \in DOMAIN agentResults |-> resultToSession(agentResults[i])]]

\* the context object built for a stage of the resume loop
ResumeContext(agentType, planContext, codeChanges, agentResults) ==
    [plan |-> IF agentType # "planner" /\ Truthy(planContext) THEN planContext ELSE None,
     codeChanges |-> IF agentType = "reviewer" /\ Len(codeChanges) > 0
                     THEN Some(codeChanges) ELSE None,
     previousSessions |-> MapSessions(agentResults)]

\* the task status written before a stage of the resume loop
StageStatus(agentType) ==
    CASE agentType = "planner" -> "planning"
      [] agentType = "coder" -> "coding"
      [] agentType = "reviewer" -> "reviewing"

\* the fallback error of a failed stage of the resume loop
StageFallback(agentType) ==
    CASE agentType = "planner" -> "planner agent failed"
      [] agentType = "coder" -> "coder agent failed"
      [] agentType = "reviewer" -> "reviewer agent failed"

\* the message of the WorkflowError for a missing agent
AgentNotFound(agentType) ==
    CASE agentType = "planner" -> "planner agent not found in provided agents"
      [] agentType = "coder" -> "coder agent not found in provided agents"
      [] agentType = "reviewer" -> "reviewer agent not found in provided agents"

\* a task another call is working on is not taken up
ResumeFor_SkipsTaskInFlight(configs, options) ==
    /\ CanStartCall
    /\ \E cfg \in configs, opt \in options :
          LET skipReview == cfg.skipReview
              planOnly == cfg.planOnly
              agents == cfg.agents
              c == [NoCall EXCEPT !.kind = "resume", !.skipReview = skipReview,
                                  !.planOnly = planOnly, !.agents = agents, !.dryRun = opt.dryRun,
                                  !.agentTaskId = opt.agentTaskId]
              latest == getLatestIncompleteTask(tasks)
              taskId == IF /\ parked.call.pc \notin {"idle", "done"}
                           /\ parked.call.taskId = latest
                        THEN 0 ELSE latest
          IN IF taskId = 0
             THEN /\ call' = Returned(c, "threw",
                       Some("No incomplete task found to resume. All tasks are completed."))
                  /\ tasks' = tasks
             ELSE /\ call' = [c EXCEPT !.pc = "r_load", !.taskId = taskId]
                  /\ tasks' = IF Truthy(tasks[taskId].error)
                              THEN clearTaskError(tasks, taskId) ELSE tasks
    /\ invocations' = <<>>
    /\ setErrorCalls' = 0
    /\ created' = <<>>
    /\ calls' = calls + 1
    /\ UNCHANGED <<parked, faultsLeft, tables, sessions, reported, now>>

\* tasks/getLatestIncompleteTask and, for a stored error, tasks/clearTaskError
ResumeFor(configs, options) ==
    /\ CanStartCall
    /\ \E cfg \in configs, opt \in options :
          LET skipReview == cfg.skipReview
              planOnly == cfg.planOnly
              agents == cfg.agents
              c == [NoCall EXCEPT !.kind = "resume", !.skipReview = skipReview,
                                  !.planOnly = planOnly, !.agents = agents, !.dryRun = opt.dryRun,
                                  !.agentTaskId = opt.agentTaskId]
              taskId == getLatestIncompleteTask(tasks)
          IN IF taskId = 0
             THEN /\ call' = Returned(c, "threw",
                       Some("No incomplete task found to resume. All tasks are completed."))
                  /\ tasks' = tasks
             ELSE /\ call' = [c EXCEPT !.pc = "r_load", !.taskId = taskId]
                  /\ tasks' = IF Truthy(tasks[taskId].error)
                              THEN clearTaskError(tasks, taskId) ELSE tasks
    /\ invocations' = <<>>
    /\ setErrorCalls' = 0
    /\ created' = <<>>
    /\ calls' = calls + 1
    /\ UNCHANGED <<parked, faultsLeft, tables, sessions, reported, now>>

\* resumeOrchestration with any skipReview, planOnly and agents
ResumeWith(options) == ResumeFor(Configs, options)

\* resumeOrchestration as the CLI calls it
ResumeStart == ResumeWith(DefaultOptions)

\* resumeOrchestration with any executionOptions and agent configuration
ResumeStartAnyOptions == ResumeWith(Options)

\* agentSessions/getAgentSessionsByTask, the context rebuilt from the
\* completed sessions, agentsToExecute, and the nothing-to-do return
ResumeLoad ==
    /\ call.kind = "resume" /\ call.pc = "r_load"
    /\ LET loaded == LoadSessions(sessions, getAgentSessionsByTask(sessions, call.taskId),
                        [agentResults |-> <<>>, completedAgents |-> {},
                         planContext |-> None, codeChanges |-> <<>>])
           toExec == AgentsToExecute(loaded.completedAgents, call.skipReview, call.agents)
           c == [call EXCEPT !.agentResults = loaded.agentResults,
                             !.planContext = loaded.planContext,
                             !.codeChanges = loaded.codeChanges,
                             !.toExec = toExec]
       IN IF toExec = <<>>
          THEN /\ tasks' = updateTaskStatus(tasks, call.taskId, "completed")
               /\ call' = Returned(c, "completed", None)
          ELSE /\ tasks' = tasks
               /\ call' = [c EXCEPT !.pc = "r_loop"]
    /\ UNCHANGED <<parked, faultsLeft, tables, sessions, reported, now, calls, invocations, setErrorCalls, created>>

\* the loop does not move on to the next entry of agentsToExecute
ResumeNext_StaysOnStage ==
    /\ call.kind = "resume" /\ call.pc = "r_loop"
    /\ IF call.toExec = <<>>
       THEN /\ tasks' = updateTaskStatus(tasks, call.taskId, "completed")
            /\ call' = Returned(call, "completed", None)
            /\ UNCHANGED setErrorCalls
       ELSE LET agentType == Head(call.toExec)
            IN IF agentType \notin call.agents
               THEN /\ call' = [call EXCEPT !.pc = "catch",
                                                 !.thrown = Some(AgentNotFound(agentType))]
                    /\ UNCHANGED <<tasks, setErrorCalls>>
               ELSE /\ tasks' = updateTaskStatus(tasks, call.taskId, StageStatus(agentType))
                    /\ call' = [call EXCEPT !.pc = "ea_create", !.role = agentType,
                                  !.toExec = @,
                                  !.ctx = ResumeContext(agentType, call.planContext,
                                             call.codeChanges, call.agentResults)]
                    /\ UNCHANGED setErrorCalls
    /\ UNCHANGED <<parked, faultsLeft, tables, sessions, reported, now, calls, invocations, created>>

\* one turn of the loop up to the status write, or the end of the loop
ResumeNext ==
    /\ call.kind = "resume" /\ call.pc = "r_loop"
    /\ IF call.toExec = <<>>
       THEN /\ tasks' = updateTaskStatus(tasks, call.taskId, "completed")
            /\ call' = Returned(call, "completed", None)
            /\ UNCHANGED setErrorCalls
       ELSE LET agentType == Head(call.toExec)
            IN IF agentType \notin call.agents
               THEN /\ call' = [call EXCEPT !.pc = "catch",
                                                 !.thrown = Some(AgentNotFound(agentType))]
                    /\ UNCHANGED <<tasks, setErrorCalls>>
               ELSE /\ tasks' = updateTaskStatus(tasks, call.taskId, StageStatus(agentType))
                    /\ call' = [call EXCEPT !.pc = "ea_create", !.role = agentType,
                                  !.toExec = Tail(@),
                                  !.ctx = ResumeContext(agentType, call.planContext,
                                             call.codeChanges, call.agentResults)]
                    /\ UNCHANGED setErrorCalls
    /\ UNCHANGED <<parked, faultsLeft, tables, sessions, reported, now, calls, invocations, created>>

\* after a stage of the loop: failure handling, or the context update
ResumeAfter_StopsAfterPlan ==
    /\ call.kind = "resume" /\ call.pc = "after"
    /\ LET r == call.res[1]
           c == [call EXCEPT !.agentResults = Append(@, r), !.res = None]
       IN IF ResultFailed(r)
          THEN StageFailed(c, r, StageFallback(call.role))
          ELSE IF call.planOnly /\ call.role = "planner"
          THEN /\ call' = Returned(c, "completed", None)
               /\ UNCHANGED <<tasks, setErrorCalls>>
          ELSE /\ call' = [c EXCEPT !.pc = "r_loop",
                     !.planContext = IF call.role = "planner" THEN Some(r.content) ELSE @,
                     !.codeChanges = IF call.role = "coder"
                                     THEN ExtractCodeChanges(@, r) ELSE @]
               /\ UNCHANGED <<tasks, setErrorCalls>>
    /\ UNCHANGED <<parked, faultsLeft, tables, sessions, reported, now, calls, invocations, created>>

ResumeAfter ==
    /\ call.kind = "resume" /\ call.pc = "after"
    /\ LET r == call.res[1]
           c == [call EXCEPT !.agentResults = Append(@, r), !.res = None]
       IN IF ResultFailed(r)
          THEN StageFailed(c, r, StageFallback(call.role))
          ELSE /\ call' = [c EXCEPT !.pc = "r_loop",
                     !.planContext = IF call.role = "planner" THEN Some(r.content) ELSE @,
                     !.codeChanges = IF call.role = "coder"
                                     THEN ExtractCodeChanges(@, r) ELSE @]
               /\ UNCHANGED <<tasks, setErrorCalls>>
    /\ UNCHANGED <<parked, faultsLeft, tables, sessions, reported, now, calls, invocations, created>>

\* ---- the catch blocks of the two entry points ---------------------------
\* the fallback message of the catch block
CatchFallback(kind) ==
    IF kind = "run" THEN "Unknown error" ELSE "Unknown error during resume"

\* tasks/setTaskError with the caught message, and the Failed result
CatchError ==
    /\ call.pc = "catch"
    /\ LET msg == CaughtMessage(call.thrown, CatchFallback(call.kind))
       IN /\ tasks' = setTaskError(tasks, call.taskId, msg)
          /\ call' = Returned(call, "failed", Some(msg))
    /\ setErrorCalls' = setErrorCalls + 1
    /\ UNCHANGED <<parked, faultsLeft, tables, sessions, reported, now, calls, invocations, created>>

\* ---- interruption ------------------------------------------------------
\* the process is killed in the middle of a call: the store keeps what was
\* written, everything in memory is lost
Crash ==
    /\ call.pc \notin {"idle", "done"}
    /\ call' = NoCall
    /\ invocations' = <<>>
    /\ setErrorCalls' = 0
    /\ created' = <<>>
    /\ UNCHANGED <<parked, faultsLeft, tables, tasks, sessions, reported, now, calls>>

Next ==
    \/ OrchestrateStart
    \/ ExecCreateSession
    \/ ExecStartSession
    \/ ExecInvokeAgent
    \/ ExecFinish
    \/ OrchAfterPlanner
    \/ OrchBeforeCoder
    \/ OrchAfterCoder
    \/ OrchBeforeReviewer
    \/ OrchAfterReviewer
    \/ ResumeStart
    \/ ResumeLoad
    \/ ResumeNext
    \/ ResumeAfter
    \/ CatchError
    \/ Crash

Spec == Init /\ [][Next]_vars

\* ---- two calls at a time -----------------------------------------------
\* the call in flight is suspended at its await and the other call goes on
\* (or, being idle, may begin)
Switch ==
    /\ parked.switches < MaxSwitches
    /\ call' = parked.call
    /\ invocations' = parked.invocations
    /\ setErrorCalls' = parked.setErrorCalls
    /\ created' = parked.created
    /\ parked' = [call |-> call, invocations |-> invocations,
                  setErrorCalls |-> setErrorCalls, created |-> created,
                  switches |-> parked.switches + 1]
    /\ UNCHANGED <<faultsLeft, tables, tasks, sessions, reported, now, calls>>

\* orchestrateAgents with all three agents and skipReview
OrchestrateStartFull == OrchestrateFor(FullConfigs, DefaultOptions)

\* resumeOrchestration with all three agents and skipReview
ResumeStartFull == ResumeFor(FullConfigs, DefaultOptions)

\* two calls with skipReview, interleaved at their awaits
NextConcurrent ==
    \/ OrchestrateStartFull
    \/ ExecCreateSession
    \/ ExecStartSession
    \/ ExecInvokeAgent
    \/ ExecFinish
    \/ OrchAfterPlanner
    \/ OrchBeforeCoder
    \/ OrchAfterCoder
    \/ OrchBeforeReviewer
    \/ ResumeStartFull
    \/ ResumeLoad
    \/ ResumeNext
    \/ ResumeAfter
    \/ Switch

SpecConcurrent == Init /\ [][NextConcurrent]_vars

\* ---- full pipelines ---------------------------------------------------
\* all three agents, neither skipReview nor planOnly
ThreeStageConfigs == [skipReview : {FALSE}, planOnly : {FALSE}, agents : {Roles}]

\* orchestrateAgents for all three stages
OrchestrateStartThreeStages == OrchestrateFor(ThreeStageConfigs, DefaultOptions)

\* resumeOrchestration for all three stages
ResumeStartThreeStages == ResumeFor(ThreeStageConfigs, DefaultOptions)

\* room for the session of a failed stage and a session of every stage
ExecCreateSessionFull == ExecCreateSessionUpTo(MaxSessions + 1)

\* calls for all three stages, run to their end
NextFull ==
    \/ OrchestrateStartThreeStages
    \/ ExecCreateSessionFull
    \/ ExecStartSession
    \/ ExecInvokeAgent
    \/ ExecFinish
    \/ OrchAfterPlanner
    \/ OrchBeforeCoder
    \/ OrchAfterCoder
    \/ OrchBeforeReviewer
    \/ OrchAfterReviewer
    \/ ResumeStartThreeStages
    \/ ResumeLoad
    \/ ResumeNext
    \/ ResumeAfter

SpecFull == Init /\ [][NextFull]_vars

\* ---- a store that already holds tasks ---------------------------------
\* a task as an earlier process or another client of the store left it:
\* failed with its error or completed, with or without a retryCount
StoredTasks ==
    {[status |-> st, error |-> IF st = "failed" THEN Some("E") ELSE None,
      retryCount |-> rc, createdAt |-> t] :
        st \in {"failed", "completed"}, rc \in {None, Some(1)}, t \in 0..1}

\* the tasks table in creation order
Stores ==
    {ts \in UNION {[1..n -> StoredTasks] : n \in 0..MaxStored} :
        \A i, j \in DOMAIN ts : i < j => ts[i].createdAt <= ts[j].createdAt}

\* the system starts over a store that already holds tasks
InitStore ==
    /\ tasks \in Stores
    /\ sessions = <<>>
    /\ now = 2
    /\ calls = 0
    /\ call = NoCall
    /\ invocations = <<>>
    /\ setErrorCalls = 0
    /\ created = <<>>
    /\ reported = <<>>
    /\ faultsLeft = 0
    /\ tables = NoRecords
    /\ parked = NoParked

\* tasks/createTask, called by a client of the store
StoreCreateTask ==
    /\ calls < MaxCalls
    /\ call.pc \in {"idle", "done"}
    /\ Len(tasks) < MaxTasks
    /\ tasks' = createTask(tasks, now)
    /\ now' = now + 1
    /\ calls' = calls + 1
    /\ UNCHANGED <<parked, faultsLeft, tables, sessions, reported, call, invocations,
                   setErrorCalls, created>>

\* tasks/updateTaskStatus, called by a client of the store
StoreUpdateTaskStatus ==
    /\ calls < MaxCalls
    /\ call.pc \in {"idle", "done"}
    /\ \E id \in DOMAIN tasks, st \in {"coding", "completed"} :
          tasks' = updateTaskStatus(tasks, id, st)
    /\ calls' = calls + 1
    /\ UNCHANGED <<parked, faultsLeft, tables, sessions, reported, call, now, invocations,
                   setErrorCalls, created>>

\* tasks/setTaskError, called by a client of the store
StoreSetTaskError ==
    /\ calls < MaxCalls
    /\ call.pc \in {"idle", "done"}
    /\ \E id \in DOMAIN tasks : tasks' = setTaskError(tasks, id, "E")
    /\ setErrorCalls' = setErrorCalls + 1
    /\ calls' = calls + 1
    /\ UNCHANGED <<parked, faultsLeft, tables, sessions, reported, call, now, invocations,
                   created>>

\* tasks/clearTaskError, called by a client of the store
StoreClearTaskError ==
    /\ calls < MaxCalls
    /\ call.pc \in {"idle", "done"}
    /\ \E id \in DOMAIN tasks : tasks' = clearTaskError(tasks, id)
    /\ calls' = calls + 1
    /\ UNCHANGED <<parked, faultsLeft, tables, sessions, reported, call, now, invocations,
                   setErrorCalls, created>>

\* the handlers of convex/tasks.ts one call at a time, and the first step of
\* resumeOrchestration over the store they leave
NextStore ==
    \/ StoreCreateTask
    \/ StoreUpdateTaskStatus
    \/ StoreSetTaskError
    \/ StoreClearTaskError
    \/ ResumeStart
    \/ Crash

SpecStore == InitStore /\ [][NextStore]_vars

\* ---- store faults ------------------------------------------------------
\* a call of convex.mutation or convex.query rejects: nothing is written and
\* the await throws an Error with this message
FaultMsg == "store error"

\* a session write of executeAgent rejects.  createAgentSession and
\* startAgentSession are awaited before the try block, and the
\* failAgentSession of the catch block has no handler: the exception leaves
\* executeAgent and reaches the catch block of the entry point.  A terminal
\* write inside the try block is caught by executeAgent's own catch block.
ExecStoreFault ==
    /\ faultsLeft > 0
    /\ call.pc \in {"ea_create", "ea_start", "ea_finish"}
    /\ faultsLeft' = faultsLeft - 1
    /\ IF call.pc = "ea_finish" /\ call.out[1].kind \in {"ok", "fail"}
       THEN call' = [call EXCEPT !.out = Some([@[1] EXCEPT !.kind = "caught",
                                                          !.error = Some(FaultMsg)])]
       ELSE call' = [call EXCEPT !.pc = "catch", !.thrown = Some(FaultMsg)]
    /\ UNCHANGED <<parked, tables, tasks, sessions, reported, now, calls, invocations, setErrorCalls,
                   created>>

\* a task write inside the try block of an entry point rejects
PipelineStoreFault ==
    /\ faultsLeft > 0
    /\ \/ call.pc \in {"o_planned", "o_coded"}
       \/ call.pc = "after" /\ (call.kind = "run" \/ ResultFailed(call.res[1]))
       \/ call.pc = "r_loop"
          /\ (IF call.toExec = <<>> THEN TRUE ELSE Head(call.toExec) \in call.agents)
    /\ faultsLeft' = faultsLeft - 1
    /\ call' = [call EXCEPT !.pc = "catch", !.thrown = Some(FaultMsg), !.res = None,
                  !.agentResults = IF call.pc = "after" THEN Append(@, call.res[1]) ELSE @]
    /\ UNCHANGED <<parked, tables, tasks, sessions, reported, now, calls, invocations, setErrorCalls,
                   created>>

\* tasks/createTask rejects: it is awaited before the try block
OrchestrateStartFault ==
    /\ faultsLeft > 0
    /\ CanStartCall
    /\ \E skipReview \in BOOLEAN, planOnly \in BOOLEAN, agents \in AgentSets :
          /\ ValidateAgents(agents, skipReview, planOnly) = None
          /\ call' = Returned([NoCall EXCEPT !.kind = "run", !.skipReview = skipReview,
                                 !.planOnly = planOnly, !.agents = agents,
                                 !.thrown = Some(FaultMsg)],
                              "threw", Some(FaultMsg))
    /\ faultsLeft' = faultsLeft - 1
    /\ invocations' = <<>>
    /\ setErrorCalls' = 0
    /\ created' = <<>>
    /\ calls' = calls + 1
    /\ UNCHANGED <<parked, tables, tasks, sessions, reported, now>>

\* tasks/clearTaskError rejects: it is awaited before the try block
ResumeStartFault ==
    /\ faultsLeft > 0
    /\ CanStartCall
    /\ LET taskId == getLatestIncompleteTask(tasks)
       IN /\ taskId # 0
          /\ Truthy(tasks[taskId].error)
          /\ \E skipReview \in BOOLEAN, agents \in AgentSets :
                call' = Returned([NoCall EXCEPT !.kind = "resume", !.taskId = taskId,
                                    !.skipReview = skipReview, !.agents = agents,
                                    !.thrown = Some(FaultMsg)],
                                 "threw", Some(FaultMsg))
    /\ faultsLeft' = faultsLeft - 1
    /\ invocations' = <<>>
    /\ setErrorCalls' = 0
    /\ created' = <<>>
    /\ calls' = calls + 1
    /\ UNCHANGED <<parked, tables, tasks, sessions, reported, now>>

\* agentSessions/getAgentSessionsByTask, or the status write of the
\* nothing-to-do return, rejects: both are awaited before the try block
ResumeLoadFault ==
    /\ faultsLeft > 0
    /\ call.kind = "resume" /\ call.pc = "r_load"
    /\ faultsLeft' = faultsLeft - 1
    /\ call' = Returned([call EXCEPT !.thrown = Some(FaultMsg)], "threw", Some(FaultMsg))
    /\ UNCHANGED <<parked, tables, tasks, sessions, reported, now, calls, invocations, setErrorCalls,
                   created>>

\* tasks/setTaskError rejects inside the catch block of an entry point
CatchFault ==
    /\ faultsLeft > 0
    /\ call.pc = "catch"
    /\ faultsLeft' = faultsLeft - 1
    /\ call' = Returned([call EXCEPT !.thrown = Some(FaultMsg)], "threw", Some(FaultMsg))
    /\ UNCHANGED <<parked, tables, tasks, sessions, reported, now, calls, invocations, setErrorCalls,
                   created>>

InitFault ==
    /\ tasks = <<>>
    /\ sessions = <<>>
    /\ now = 0
    /\ calls = 0
    /\ call = NoCall
    /\ invocations = <<>>
    /\ setErrorCalls = 0
    /\ created = <<>>
    /\ reported = <<>>
    /\ faultsLeft = MaxFaults
    /\ tables = NoRecords
    /\ parked = NoParked

NextFault ==
    \/ Next
    \/ ExecStoreFault
    \/ PipelineStoreFault
    \/ OrchestrateStartFault
    \/ ResumeStartFault
    \/ ResumeLoadFault
    \/ CatchFault

SpecFault == InitFault /\ [][NextFault]_vars

\* calls for all three stages over a store that may reject the session
\* writes of executeAgent
NextFullFault ==
    \/ NextFull
    \/ ExecStoreFault
    \/ CatchError

SpecFullFault == InitFault /\ [][NextFullFault]_vars

\* ---- execution options and agent persistence --------------------------
\* the two entry points called with any executionOptions, over agents with
\* or without a configured task id, whose own store writes may be rejected
\* (calls that run to their return: the interruption of a call is in Spec)
NextOptions ==
    \/ OrchestrateStartAnyOptions
    \/ ExecCreateSession
    \/ ExecStartSession
    \/ ExecInvokeAgentStoreMayFail
    \/ ExecFinish
    \/ OrchAfterPlanner
    \/ OrchBeforeCoder
    \/ OrchAfterCoder
    \/ OrchBeforeReviewer
    \/ OrchAfterReviewer
    \/ ResumeStartAnyOptions
    \/ ResumeLoad
    \/ ResumeNext
    \/ ResumeAfter
    \/ CatchError

SpecOptions == Init /\ [][NextOptions]_vars

TypeOK ==
    /\ calls \in 0..MaxCalls
    /\ Len(sessions) <= MaxSessions + 1
    /\ Len(tasks) <= MaxTasks
    /\ call.pc \in {"idle", "done", "ea_create", "ea_start", "ea_execute", "ea_finish",
                    "after", "o_planned", "o_coded", "r_load", "r_loop", "catch"}
    /\ faultsLeft \in 0..MaxFaults

\* ---- vocabulary of the properties --------------------------------------
Range(f) == {f[i] : i \in DOMAIN f}

Last(q) == q[Len(q)]

Max(S) == CHOOSE x \in S : \A y \in S : y <= x

InCall == call.pc \notin {"idle", "done"}

Active(i) == sessions[i].status \in {"pending", "running"}

\* the sessions of the task of the call in flight
CallTaskSessions == {i \in DOMAIN sessions : sessions[i].taskId = call.taskId}

\* the sessions of that task that existed when the call began
EarlierSessions == CallTaskSessions \ Range(created)

CompletedOf(ids, role) ==
    {i \in ids : sessions[i].agentType = role /\ sessions[i].status = "completed"}

InvokedRoles == {invocations[i].role : i \in DOMAIN invocations}

RolesOf(rs) == [i \in DOMAIN rs |-> rs[i].agentType]

InvokedSeq == [i \in DOMAIN invocations |-> invocations[i].role]

ReturnedStatus(st) == call.pc = "done" /\ call.ret # None /\ call.ret[1].status = st

\* ---- C1 ----------------------------------------------------------------
StagesInOrder ==
    /\ \A i, j \in DOMAIN created :
          i < j => RoleIdx(sessions[created[i]].agentType)
                     < RoleIdx(sessions[created[j]].agentType)
    /\ \A i, j \in DOMAIN invocations :
          i < j => RoleIdx(invocations[i].role) < RoleIdx(invocations[j].role)

PreviousStageFinished ==
    \A i \in DOMAIN created : i < Len(created) => ~Active(created[i])

\* C1 as stated: during a call the stages run in the order planner, coder,
\* reviewer, each session is created only after the previous one is
\* completed or failed, and at most one session of the task is pending or
\* running.
C1_AsStated ==
    InCall /\ call.taskId # 0 =>
        /\ StagesInOrder
        /\ PreviousStageFinished
        /\ Cardinality({i \in CallTaskSessions : Active(i)}) <= 1

\* C1 (amended): during a call the stages run in the order planner, coder,
\* reviewer, each session is created only after the previous session of the
\* call is completed or failed, and at most one of the sessions created by
\* the call is pending or running.
C1_Sequential ==
    /\ StagesInOrder
    /\ PreviousStageFinished
    /\ Cardinality({i \in Range(created) : Active(i)}) <= 1

C1_Witness == Len(created) = 3 /\ sessions[created[3]].status = "running"

\* ---- C2 ----------------------------------------------------------------
PlannerStageFailed ==
    /\ call.kind = "run"
    /\ \/ call.role = "planner" /\ call.pc = "ea_finish" /\ call.out[1].kind # "ok"
       \/ call.role = "planner" /\ call.pc = "after" /\ ~call.res[1].success
       \/ call.agentResults # <<>> /\ ~call.agentResults[1].success

\* C2: in orchestrateAgents, once the planner stage has failed, the coder
\* and the reviewer are never invoked, and the call returns Failed after
\* exactly one setTaskError call.
C2_PlannerFailFast ==
    PlannerStageFailed =>
        /\ InvokedSeq = <<"planner">>
        /\ Len(created) = 1
        /\ setErrorCalls <= 1
        /\ call.pc = "done" => setErrorCalls = 1 /\ ReturnedStatus("failed")

C2_Witness ==
    /\ call.kind = "run" /\ ReturnedStatus("failed")
    /\ ~call.agentResults[1].success
    /\ setErrorCalls = 1

\* ---- C3 ----------------------------------------------------------------
StageFailureRecorded(r) ==
    LET s == sessions[call.sessionId]
        t == tasks[call.taskId]
    IN /\ ReturnedStatus("failed")
       /\ Last(invocations).role = r.agentType
       /\ Last(created) = call.sessionId
       /\ s.agentType = r.agentType
       /\ s.status = "failed"
       /\ t.status = "failed"
       /\ IF r.error # None
          THEN s.result = r.error /\ t.error = r.error
          ELSE Truthy(s.result) /\ Truthy(t.error)

\* C3: in both entry points a failed stage is the last stage of the call:
\* the call has returned Failed, the stage's session is stored as failed
\* with the error message, and the task is stored as failed with that error.
C3_FailurePersisted ==
    \A i \in DOMAIN call.agentResults :
        ~call.agentResults[i].success =>
            i = Len(call.agentResults) /\ StageFailureRecorded(call.agentResults[i])

C3_Witness ==
    /\ call.kind = "resume" /\ ReturnedStatus("failed")
    /\ Len(call.agentResults) = 2
    /\ Last(call.agentResults).agentType = "coder"
    /\ Last(call.agentResults).error = Some("E")
    /\ EarlierSessions # {}

\* ---- C4 ----------------------------------------------------------------
\* C4: resumeOrchestration never invokes the agent of a role that had a
\* completed session when the call began.
C4_ResumeSkipsCompleted ==
    call.kind = "resume" =>
        \A r \in InvokedRoles : CompletedOf(EarlierSessions, r) = {}

C5_Witness ==
    /\ call.kind = "resume"
    /\ InvokedSeq = <<"coder">>
    /\ invocations[1].ctx.plan = Some("A")

\* ---- C6 ----------------------------------------------------------------
\* C6: in orchestrateAgents the reviewer's context carries exactly the
\* code-change list of the coder result's metadata, the empty list when the
\* metadata has none.
C6_ReviewerGetsChanges ==
    call.kind = "run" =>
        \A i \in DOMAIN invocations :
            invocations[i].role = "reviewer" =>
                LET coder == call.agentResults[2]
                IN /\ coder.agentType = "coder"
                   /\ invocations[i].ctx.codeChanges =
                         Some(IF coder.codeChanges = None THEN <<>>
                              ELSE coder.codeChanges[1])

C6_Witness ==
    /\ call.kind = "run"
    /\ Len(invocations) = 3
    /\ invocations[3].ctx.codeChanges = Some(<<"ch1">>)

\* ---- C7 ----------------------------------------------------------------
\* C7: when resumeOrchestration finds the coder stage completed, the
\* reviewer's context carries the code changes that coder session reported.
C7_ResumeReviewerGetsChanges ==
    call.kind = "resume" /\ "coder" \notin InvokedRoles =>
        \A i \in DOMAIN invocations :
            invocations[i].role = "reviewer" =>
                LET cs == CompletedOf(EarlierSessions, "coder")
                IN cs # {} /\ reported[Max(cs)] # None =>
                      invocations[i].ctx.codeChanges = reported[Max(cs)]

\* ---- C8 ----------------------------------------------------------------
\* C8: a full orchestrateAgents call in which every stage succeeded returns
\* Completed with the results of planner, coder and reviewer in this order,
\* and the task is stored as completed.
C8_FullRunCompletes ==
    /\ call.kind = "run" /\ call.pc = "done"
    /\ ~call.planOnly /\ ~call.skipReview
    /\ ~ReturnedStatus("threw")
    /\ \A i \in DOMAIN call.agentResults : call.agentResults[i].success
    => /\ ReturnedStatus("completed")
       /\ RolesOf(call.agentResults) = <<"planner", "coder", "reviewer">>
       /\ tasks[call.taskId].status = "completed"

C8_Witness ==
    /\ call.kind = "run" /\ ReturnedStatus("completed")
    /\ ~call.planOnly /\ ~call.skipReview
    /\ Len(call.agentResults) = 3

\* ---- C9 ----------------------------------------------------------------
RequiredRoles == IF call.skipReview THEN {"planner", "coder"} ELSE Roles

\* C9: resumeOrchestration on a task whose required stages all had a
\* completed session when the call began invokes no agent, creates no
\* session, stores the task as completed and returns Completed.
C9_ResumeNothingToDo ==
    /\ call.kind = "resume" /\ call.taskId # 0
    /\ \A r \in RequiredRoles : CompletedOf(EarlierSessions, r) # {}
    => /\ invocations = <<>>
       /\ created = <<>>
       /\ call.pc = "done" =>
             ReturnedStatus("completed") /\ tasks[call.taskId].status = "completed"

\* ---- C10 ---------------------------------------------------------------
\* C10: the sessions of a task, ordered by start time, follow the role
\* order planner, coder, reviewer, and no session is created for a role
\* that already has a completed session.
C10_SessionOrder ==
    \A i, j \in DOMAIN sessions :
        sessions[i].taskId = sessions[j].taskId =>
            /\ sessions[i].startedAt < sessions[j].startedAt =>
                  RoleIdx(sessions[i].agentType) <= RoleIdx(sessions[j].agentType)
            /\ i < j /\ sessions[i].agentType = sessions[j].agentType =>
                  sessions[i].status # "completed"

\* ---- C11 ---------------------------------------------------------------
\* the status writes a session can see, in order
SessionStep(old, new) ==
    \/ old = "pending" /\ new = "running"
    \/ old = "running" /\ new \in {"completed", "failed"}

\* the step is the agent invocation of a stage attempt
StageInvoked == Len(invocations') = Len(invocations) + 1

\* the step is the return of executeAgent to the entry point
StageReturned == call.pc = "ea_finish" /\ call'.pc = "after"

\* C11: session records are only added, each is inserted as pending, and
\* its status only moves pending -> running -> completed or failed and never
\* changes after that; when the agent of a stage is invoked the call has
\* created exactly one session per invocation and the stage's session is
\* running; when executeAgent returns, that session has just received its
\* one terminal write.
C11_SessionLifecycle ==
    [][/\ Len(sessions') >= Len(sessions)
       /\ \A i \in DOMAIN sessions' :
             IF i \in DOMAIN sessions
             THEN \/ sessions'[i].status = sessions[i].status
                  \/ SessionStep(sessions[i].status, sessions'[i].status)
             ELSE sessions'[i].status = "pending"
       /\ StageInvoked =>
             /\ Len(created) = Len(invocations')
             /\ Last(created) = call.sessionId
             /\ sessions[call.sessionId].agentType = call.role
             /\ sessions[call.sessionId].status = "running"
       /\ StageReturned =>
             /\ sessions[call.sessionId].status = "running"
             /\ sessions'[call.sessionId].status =
                   (IF call'.res[1].success THEN "completed" ELSE "failed")]_vars

C11_Witness ==
    /\ call.pc = "after" /\ Len(created) = 2
    /\ sessions[created[1]].status = "completed"
    /\ sessions[created[2]].status = "failed"

\* ---- C12 ---------------------------------------------------------------
\* position of a status in the forward order of a task
TaskRank(st) ==
    CASE st = "pending" -> 1 [] st = "planning" -> 2 [] st = "coding" -> 3
      [] st = "reviewing" -> 4 [] st = "completed" -> 5 [] st = "failed" -> 0

\* the step is the start of resumeOrchestration clearing the error of task t
ErrorCleared(t) ==
    /\ call.pc \in {"idle", "done"} /\ call'.kind = "resume" /\ call'.taskId = t
    /\ tasks[t].error # None /\ tasks'[t].error = None

\* C12: the stored status of a task only moves forward through pending,
\* planning, coding, reviewing, completed, or to failed from a status that is
\* neither completed nor failed; the one backward move is failed to pending,
\* made when resumeOrchestration clears the stored error.
C12_TaskStatusForward ==
    [][\A t \in DOMAIN tasks :
          LET a == tasks[t].status
              b == tasks'[t].status
          IN \/ a = b
             \/ b = "failed" /\ a \notin {"completed", "failed"}
             \/ a = "failed" /\ b = "pending" /\ ErrorCleared(t)
             \/ a # "failed" /\ b # "failed" /\ TaskRank(a) < TaskRank(b)]_vars

\* ---- C13 ---------------------------------------------------------------
\* the step is the start of a resumeOrchestration call
ResumeBegins ==
    call.pc \in {"idle", "done"} /\ call'.kind = "resume" /\ calls' = calls + 1

NothingToResume == "No incomplete task found to resume. All tasks are completed."

\* C13: a resumeOrchestration call that begins when no stored task has a
\* status other than completed ends at once by throwing the nothing-to-resume
\* error: no task or session is written, no session is created and no agent
\* is invoked.
C13_NothingToResume ==
    [][ResumeBegins /\ (\A t \in DOMAIN tasks : tasks[t].status = "completed") =>
          /\ call'.pc = "done"
          /\ call'.ret = Some([status |-> "threw", error |-> Some(NothingToResume)])
          /\ tasks' = tasks
          /\ sessions' = sessions
          /\ invocations' = <<>>
          /\ created' = <<>>]_vars

C13_Witness ==
    /\ call.kind = "resume" /\ ReturnedStatus("threw")
    /\ call.ret[1].error = Some(NothingToResume)
    /\ tasks # <<>> /\ \A t \in DOMAIN tasks : tasks[t].status = "completed"
    /\ sessions # <<>>

\* ---- C14 ---------------------------------------------------------------
\* C14: when resumeOrchestration has selected a task, a stored error of the
\* task is cleared in that first step, before the call has created a session
\* or invoked an agent; a task with no stored error is left as it is.
C14_ErrorClearedFirst ==
    [][ResumeBegins /\ call'.taskId # 0 =>
          LET t == call'.taskId
          IN IF tasks[t].error # None
             THEN /\ tasks' = clearTaskError(tasks, t)
                  /\ sessions' = sessions
                  /\ created' = <<>>
                  /\ invocations' = <<>>
             ELSE tasks' = tasks]_vars

\* ---- C15 ---------------------------------------------------------------
\* the step is the start of an orchestrateAgents call
RunBegins ==
    call.pc \in {"idle", "done"} /\ call'.kind = "run" /\ calls' = calls + 1

\* the agents record of call c lacks an agent its options need
BadConfig(c) ==
    \/ "planner" \notin c.agents
    \/ "coder" \notin c.agents
    \/ "reviewer" \notin c.agents /\ ~c.skipReview /\ ~c.planOnly

ConfigErrors ==
    {Some("Planner and Coder agents are required"),
     Some("Reviewer agent is required when not skipping review")}

\* C15: an orchestrateAgents call without a planner or a coder, or without
\* a reviewer when neither skipReview nor planOnly is set, ends at once by
\* throwing a configuration error: no task and no session is written.
C15_ConfigRejected ==
    [][RunBegins /\ BadConfig(call') =>
          /\ call'.pc = "done"
          /\ call'.ret # None
          /\ call'.ret[1].status = "threw"
          /\ call'.ret[1].error \in ConfigErrors
          /\ tasks' = tasks
          /\ sessions' = sessions
          /\ created' = <<>>
          /\ invocations' = <<>>]_vars

C15_Witness ==
    /\ call.kind = "run" /\ ReturnedStatus("threw")
    /\ call.agents = {"planner", "coder"} /\ ~call.skipReview /\ ~call.planOnly
    /\ call.ret[1].error = Some("Reviewer agent is required when not skipping review")
    /\ call.taskId = 0 /\ Len(tasks) = 1

\* ---- C16 ---------------------------------------------------------------
\* C16: the only exceptions an entry point throws to its caller are the
\* configuration error of orchestrateAgents and the nothing-to-resume error
\* of resumeOrchestration; every other exception of a call, a rejected store
\* call included, ends the call with a Failed result whose error is stored
\* as the error of the failed task.
C16_ExceptionsContained ==
    /\ ReturnedStatus("threw") =>
          \/ call.kind = "run" /\ BadConfig(call)
          \/ call.kind = "resume" /\ call.taskId = 0
    /\ call.thrown # None /\ call.pc = "done" =>
          /\ ReturnedStatus("failed")
          /\ call.ret[1].error = call.thrown
          /\ tasks[call.taskId].status = "failed"
          /\ tasks[call.taskId].error = call.thrown

\* ---- C17 ---------------------------------------------------------------
\* the agent of the last stage attempt threw, and executeAgent has returned
AgentThrew ==
    call.out # None /\ call.out[1].kind = "throw" /\ call.pc \in {"after", "done"}

\* C17: when agent.execute throws, the stage's session is stored as failed
\* with the thrown message and executeAgent returns a failure result with
\* that message; the entry point then ends as for a reported failure: one
\* setTaskError, the task stored as failed with the message, a Failed result,
\* and no later stage.
C17_ThrowIsFailure ==
    AgentThrew =>
        LET msg == call.out[1].error
            s == sessions[call.sessionId]
            failure == [agentType |-> call.role, success |-> FALSE, content |-> "",
                        error |-> msg, codeChanges |-> None]
        IN /\ s.status = "failed" /\ s.result = msg /\ s.agentType = call.role
           /\ Last(created) = call.sessionId
           /\ Last(InvokedSeq) = call.role
           /\ IF call.pc = "after"
              THEN call.res = Some(failure)
              ELSE /\ ReturnedStatus("failed")
                   /\ call.ret[1].error = msg
                   /\ Last(call.agentResults) = failure
                   /\ setErrorCalls = 1
                   /\ tasks[call.taskId].status = "failed"
                   /\ tasks[call.taskId].error = msg

C17_Witness ==
    /\ AgentThrew /\ call.pc = "done"
    /\ call.role = "coder" /\ call.out[1].error = Some("E")
    /\ Len(invocations) = 2

\* ---- C18 ---------------------------------------------------------------
\* the call in flight is inside executeAgent
InExecuteAgent(c) == c.pc \in {"ea_create", "ea_start", "ea_execute", "ea_finish"}

\* C18: executeAgent is only left by returning a result to the entry point
\* (or by the interruption of the process): a rejected session write makes it
\* return a failure result and never throw.
C18_ExecutorNeverThrows ==
    [][InExecuteAgent(call) /\ ~InExecuteAgent(call') /\ call'.pc # "idle" =>
          /\ call'.pc = "after"
          /\ call'.res # None]_vars

\* ---- C19 ---------------------------------------------------------------
\* C19: an orchestrateAgents call with planOnly invokes no agent but the
\* planner, once, and creates no session but the planner's; when the planner
\* succeeded the call returns Completed with that one result and the task is
\* stored as completed.
C19_PlanOnlyStops ==
    call.kind = "run" /\ call.planOnly =>
        /\ Len(invocations) <= 1 /\ InvokedRoles \subseteq {"planner"}
        /\ Len(created) <= 1
        /\ \A i \in Range(created) : sessions[i].agentType = "planner"
        /\ call.pc = "done" /\ call.agentResults # <<>> /\ call.agentResults[1].success =>
              /\ ReturnedStatus("completed")
              /\ Len(call.agentResults) = 1
              /\ tasks[call.taskId].status = "completed"

C19_Witness ==
    /\ call.kind = "run" /\ call.planOnly /\ ~call.skipReview
    /\ call.agents = {"planner", "coder"}
    /\ ReturnedStatus("completed")
    /\ Len(call.agentResults) = 1 /\ Len(created) = 1
    /\ tasks[call.taskId].status = "completed"

\* ---- C20 ---------------------------------------------------------------
\* C20: a call with skipReview, of either entry point, invokes no reviewer,
\* creates no reviewer session and never has the reviewer among the stages
\* it is to execute; an orchestrateAgents call (without planOnly) whose coder
\* succeeded returns Completed with exactly two results and the task is
\* stored as completed.
C20_SkipReviewStops ==
    call.kind \in {"run", "resume"} /\ call.skipReview =>
        /\ "reviewer" \notin InvokedRoles
        /\ \A i \in Range(created) : sessions[i].agentType # "reviewer"
        /\ call.role # "reviewer"
        /\ "reviewer" \notin Range(call.toExec)
        /\ /\ call.kind = "run" /\ ~call.planOnly /\ call.pc = "done"
           /\ Len(call.agentResults) >= 2 /\ call.agentResults[2].success
           => /\ ReturnedStatus("completed")
              /\ Len(call.agentResults) = 2
              /\ tasks[call.taskId].status = "completed"

C20_Witness ==
    /\ call.kind = "run" /\ call.skipReview /\ ~call.planOnly
    /\ call.agents = Roles
    /\ ReturnedStatus("completed")
    /\ Len(call.agentResults) = 2 /\ Len(created) = 2
    /\ tasks[call.taskId].status = "completed"

\* ---- C21 ---------------------------------------------------------------
\* role r is due in the resume call in flight: it had no completed session
\* when the call began, and it is not a skipped reviewer
StageDue(r) ==
    /\ CompletedOf(EarlierSessions, r) = {}
    /\ ~(r = "reviewer" /\ call.skipReview)

\* the stages the call in flight has invoked, is executing or is still to
\* execute, in order
PlannedStages ==
    InvokedSeq
    \o (IF call.pc \in {"ea_create", "ea_start", "ea_execute"} THEN <<call.role>> ELSE <<>>)
    \o call.toExec

\* C21: the stages a resumeOrchestration call executes are planner, coder,
\* reviewer without the roles that had a completed session when the call
\* began and without the reviewer under skipReview, in that order.
C21_ResumeStages ==
    call.kind = "resume" /\ call.taskId # 0 /\ call.pc # "r_load" =>
        PlannedStages = SelectSeq(<<"planner", "coder", "reviewer">>, StageDue)

\* ---- C22 ---------------------------------------------------------------
\* C22: a resumeOrchestration call changes no session record that existed
\* when it began: the only sessions it writes are the ones it has created,
\* and each of those is a new record, added for the stage about to run.
C22_ResumeKeepsOldSessions ==
    [][/\ ResumeBegins => sessions' = sessions
       /\ call.kind = "resume" /\ call.pc # "done" =>
             /\ \A i \in DOMAIN sessions :
                   i \notin Range(created) => sessions'[i] = sessions[i]
             /\ created' # created /\ call'.kind = "resume" =>
                   /\ created' = Append(created, Len(sessions) + 1)
                   /\ Len(sessions') = Len(sessions) + 1
                   /\ call'.sessionId = Len(sessions')
             /\ StageInvoked => call.sessionId = Last(created)]_vars

C22_Witness ==
    /\ call.kind = "resume" /\ call.pc = "done"
    /\ \E i \in EarlierSessions, j \in Range(created) :
          /\ sessions[i].agentType = sessions[j].agentType
          /\ sessions[i].status = "failed"
          /\ sessions[j].status = "completed"
    /\ \E i \in EarlierSessions : sessions[i].status = "completed"

\* ---- C23 ---------------------------------------------------------------
\* the results of the stages the call has run are the last entries of
\* agentResults, in order
StageResultsCollected ==
    /\ Len(call.agentResults) >= Len(invocations)
    /\ \A k \in DOMAIN invocations :
          call.agentResults[Len(call.agentResults) - Len(invocations) + k].agentType
             = InvokedSeq[k]
    /\ call.thrown = None => ~Last(call.agentResults).success

\* C23: a Failed result carries a defined error string and the results of
\* every stage run so far, the failed stage's result included.
C23_FailedResultComplete ==
    ReturnedStatus("failed") =>
        /\ call.ret[1].error # None
        /\ StageResultsCollected

\* ---- C24 ---------------------------------------------------------------
\* the result of stage k of an orchestrateAgents call, once the call has
\* moved on from a successful stage k
MovedOnFrom(k) == Len(call.agentResults) >= k /\ call.agentResults[k].success

\* C24: in an orchestrateAgents call without dryRun, once the call has moved
\* on from a successful planner the plans table holds its plan, once it has
\* moved on from a successful coder the codeChanges table holds a record for
\* every change the coder reported, and once it has moved on from a
\* successful reviewer the reviews table holds a review.
C24_StageOutputsPersisted ==
    call.kind = "run" /\ ~call.dryRun =>
        /\ MovedOnFrom(1) =>
              \E i \in DOMAIN tables.plans :
                 tables.plans[i].content = call.agentResults[1].content
        /\ MovedOnFrom(2) /\ call.agentResults[2].codeChanges # None =>
              Len(tables.codeChanges) >= Len(call.agentResults[2].codeChanges[1])
        /\ MovedOnFrom(3) => tables.reviews # <<>>

\* ---- C25 ---------------------------------------------------------------
\* executeAgent has just returned from a stage run under dryRun
DryRunStageReturned ==
    /\ call.dryRun /\ call.pc = "after"
    /\ invocations # <<>> /\ Last(invocations).role = call.role

\* C25 as stated: under dryRun the agent of a stage is invoked but the
\* session of a successful stage does not receive the completion write.
C25_AsStated ==
    DryRunStageReturned /\ call.res[1].success =>
        sessions[call.sessionId].status # "completed"

\* C25: under dryRun the agent of a stage is invoked and the session
\* bookkeeping is what it is without dryRun: the session of a successful
\* stage is written completed with the result content, that of a failed
\* stage is written failed.
C25_DryRunKeepsSessionWrites ==
    DryRunStageReturned =>
        LET s == sessions[call.sessionId]
            r == call.res[1]
        IN /\ Last(created) = call.sessionId
           /\ IF r.success
              THEN s.status = "completed" /\ s.result = Some(r.content)
              ELSE s.status = "failed"

C25_Witness ==
    /\ DryRunStageReturned /\ call.role = "coder"
    /\ call.res[1].success /\ call.res[1].content = "A"
    /\ sessions[call.sessionId].status = "completed"

\* ---- C26 ---------------------------------------------------------------
\* C26: no step of a call with dryRun writes the plans, codeChanges or
\* reviews table, and the stages of such a call still invoke their agents.
C26_DryRunNoRecords ==
    [][call.dryRun =>
          /\ tables' = tables
          /\ call.pc = "ea_execute" => StageInvoked /\ Last(invocations').role = call.role]_vars

C26_Witness ==
    /\ call.kind = "run" /\ call.dryRun /\ call.agentTaskId # None
    /\ ReturnedStatus("completed")
    /\ InvokedSeq = <<"planner", "coder", "reviewer">>
    /\ tables = NoRecords

\* ---- C27 ---------------------------------------------------------------
\* a stage of the running call whose persistence step was rejected, no
\* later stage having been invoked since
RejectedStage(i) == i = Len(invocations) /\ invocations[i].persist = "rejected"

\* the stage the call stops after when nothing fails
FinalStage(r) ==
    IF call.kind = "run"
    THEN \/ r = "planner" /\ call.planOnly
         \/ r = "coder" /\ ~call.planOnly /\ call.skipReview
         \/ r = "reviewer"
    ELSE call.toExec = <<>>

\* C27: a stage whose plan, change or review write is rejected after the
\* agent's work succeeded returns a success result, its session is completed,
\* the call goes on to the next stage and ends completed after the last one;
\* the task is not marked failed.
C27_StoreFailureNotFatal ==
    \A i \in DOMAIN invocations :
        /\ RejectedStage(i) =>
              /\ call.pc # "catch"
              /\ tasks[call.taskId].status # "failed"
              /\ call.pc = "ea_finish" => call.out[1].kind = "ok"
              /\ call.pc = "after" => call.res[1].success
              /\ call.pc # "ea_finish" => sessions[created[i]].status = "completed"
              /\ call.pc = "done" =>
                    /\ ReturnedStatus("completed")
                    /\ FinalStage(invocations[i].role)
        /\ invocations[i].persist = "rejected" /\ i < Len(invocations) =>
              sessions[created[i]].status = "completed"

C27_Witness ==
    /\ call.kind = "run" /\ ReturnedStatus("completed")
    /\ InvokedSeq = <<"planner", "coder", "reviewer">>
    /\ invocations[1].persist = "rejected"
    /\ invocations[2].persist = "rejected"
    /\ tables.plans = <<>>
    /\ tasks[call.taskId].status = "completed"

\* ---- C28 ---------------------------------------------------------------
Incomplete(ts) == {i \in DOMAIN ts : ts[i].status # "completed"}

\* i is an incomplete task of ts that no incomplete task was created after
LatestIncomplete(ts, i) ==
    /\ i \in Incomplete(ts)
    /\ \A j \in Incomplete(ts) : ts[j].createdAt <= ts[i].createdAt

\* C28: over any store, getLatestIncompleteTask is null exactly when every
\* task is completed and otherwise a not-completed task (failed ones count)
\* of greatest createdAt; that task is the one resumeOrchestration takes.
C28_LatestIncomplete ==
    /\ Incomplete(tasks) = {} <=> getLatestIncompleteTask(tasks) = 0
    /\ Incomplete(tasks) # {} => LatestIncomplete(tasks, getLatestIncompleteTask(tasks))
    /\ call.kind = "resume" /\ call.pc = "r_load" => LatestIncomplete(tasks, call.taskId)

C28_Witness ==
    /\ call.kind = "resume" /\ call.pc = "r_load"
    /\ Len(tasks) = 2
    /\ tasks[1].status = "failed" /\ tasks[1].createdAt = 0
    /\ tasks[2].createdAt = 1 /\ tasks[2].retryCount = None
    /\ tasks[2].status = "pending" /\ call.taskId = 2

\* ---- C29 ---------------------------------------------------------------
\* the retryCount a setTaskError call leaves behind
Incremented(rc) == IF rc = None THEN Some(1) ELSE Some(rc[1] + 1)

SetTaskErrorCalled == setErrorCalls' = setErrorCalls + 1

\* C29: a new task has retryCount 0; a setTaskError call raises the count of
\* its task by exactly one, a missing count counting as 0, and touches no
\* other task's count; no other step changes any count; resumeOrchestration
\* takes up an incomplete task whatever its count is.
C29_RetryCount ==
    [][/\ Len(tasks') >= Len(tasks)
       /\ \A i \in DOMAIN tasks' \ DOMAIN tasks : tasks'[i].retryCount = Some(0)
       /\ LET changed == {i \in DOMAIN tasks : tasks'[i].retryCount # tasks[i].retryCount}
          IN IF SetTaskErrorCalled
             THEN /\ Cardinality(changed) = 1
                  /\ \A i \in changed : tasks'[i].retryCount = Incremented(tasks[i].retryCount)
             ELSE changed = {}
       /\ ResumeBegins /\ call' # call /\ Incomplete(tasks) # {} =>
             call'.pc = "r_load" /\ call'.taskId = getLatestIncompleteTask(tasks)]_vars

C29_Witness ==
    /\ call.kind = "resume" /\ call.pc = "r_load"
    /\ setErrorCalls = 0
    /\ tasks[call.taskId].retryCount = Some(2)
    /\ \E i \in DOMAIN tasks : i # call.taskId /\ tasks[i].retryCount = None

\* ---- C30 ---------------------------------------------------------------
\* the agent of the current stage is at work: from the start of
\* agent.execute until executeAgent has its result
AgentRunning == call.pc \in {"ea_execute", "ea_finish"}

\* C30: while the agent of a stage is at work the stored status of the task
\* is the status of that stage: planning for the planner, coding for the
\* coder, reviewing for the reviewer.
C30_StatusNamesRunningStage ==
    AgentRunning => tasks[call.taskId].status = StageStatus(call.role)

\* ---- C31 ---------------------------------------------------------------
\* the roles of a list of results or sessions come in pipeline order
InPipelineOrder(rs) ==
    \A i, j \in DOMAIN rs : i < j => RoleIdx(rs[i].agentType) < RoleIdx(rs[j].agentType)

\* C31: the previousSessions handed to the coder are [planner] and those
\* handed to the reviewer are [planner, coder], and the agentResults a call
\* returns hold the stages in pipeline order, in orchestrateAgents and in
\* resumeOrchestration.
C31_PreviousSessionsInOrder ==
    /\ \A i \in DOMAIN invocations :
          LET roles == RolesOf(invocations[i].ctx.previousSessions)
          IN /\ invocations[i].role = "coder" => roles = <<"planner">>
             /\ invocations[i].role = "reviewer" => roles = <<"planner", "coder">>
    /\ call.pc = "done" => InPipelineOrder(call.agentResults)

\* ---- C32 ---------------------------------------------------------------
\* the call in flight is a resumeOrchestration call, with a configuration
\* orchestrateAgents accepts, of a task that had no completed session
ResumesFromScratch ==
    /\ call.kind = "resume" /\ call.taskId # 0
    /\ \A i \in EarlierSessions : sessions[i].status # "completed"
    /\ ValidateAgents(call.agents, call.skipReview, call.planOnly) = None

\* the stages orchestrateAgents runs when none fails
RunStages ==
    IF call.planOnly THEN <<"planner">>
    ELSE IF call.skipReview THEN <<"planner", "coder">>
    ELSE <<"planner", "coder", "reviewer">>

\* the context orchestrateAgents builds for its i-th stage from the results
\* rs of the stages before it
RunContext(i, rs) ==
    CASE i = 1 -> OrchPlannerContext
      [] i = 2 -> OrchCoderContext(Some(rs[1].content), SubSeq(rs, 1, 1))
      [] i = 3 -> OrchReviewerContext(Some(rs[1].content),
                                      ExtractCodeChanges(<<>>, rs[2]), SubSeq(rs, 1, 2))

\* C32: a resumeOrchestration call of a task with no completed session
\* invokes the agents orchestrateAgents would invoke for the same outcomes,
\* with the same plan and codeChanges in their context, and ends with the
\* same stored task status and the same result status.
C32_ResumeLikeRun ==
    ResumesFromScratch =>
        /\ Len(invocations) <= Len(RunStages)
        /\ \A i \in DOMAIN invocations :
              /\ invocations[i].role = RunStages[i]
              /\ invocations[i].ctx.plan = RunContext(i, call.agentResults).plan
              /\ invocations[i].ctx.codeChanges = RunContext(i, call.agentResults).codeChanges
        /\ call.pc = "done" =>
              LET rs == call.agentResults
                  ok == \A i \in DOMAIN rs : rs[i].success
              IN /\ ok => Len(rs) = Len(RunStages)
                 /\ ReturnedStatus(IF ok THEN "completed" ELSE "failed")
                 /\ tasks[call.taskId].status = call.ret[1].status

\* ---- C33 ---------------------------------------------------------------
\* the other call is in the middle of its work
OtherInFlight == parked.call.pc \notin {"idle", "done"}

\* C33: a resumeOrchestration call that begins while another call is at
\* work on the most recent incomplete task takes up that same task; nothing
\* keeps sessions of the two calls for the one task from running together.
C33_ResumeJoinsTaskInFlight ==
    [][ResumeBegins /\ call' # call /\ OtherInFlight
          /\ getLatestIncompleteTask(tasks) = parked.call.taskId =>
             call'.pc = "r_load" /\ call'.taskId = parked.call.taskId]_vars

C33_Witness ==
    /\ call.kind = "resume" /\ call.pc = "ea_execute"
    /\ OtherInFlight /\ parked.call.pc = "ea_execute"
    /\ parked.call.taskId = call.taskId
    /\ call.sessionId # parked.call.sessionId
    /\ sessions[call.sessionId].status = "running"
    /\ sessions[parked.call.sessionId].status = "running"
    /\ sessions[call.sessionId].taskId = sessions[parked.call.sessionId].taskId

\* ---- C34 ---------------------------------------------------------------
\* C34: a task whose failure message is not the empty string has a stored
\* error exactly when its stored status is failed.
C34_ErrorIffFailed ==
    \A i \in DOMAIN tasks :
        tasks[i].error # Some("") =>
            (tasks[i].error # None <=> tasks[i].status = "failed")

C34_Witness ==
    /\ call.kind = "resume" /\ call.pc = "r_load"
    /\ tasks[call.taskId].retryCount = Some(1)
    /\ tasks[call.taskId].error = None
    /\ tasks[call.taskId].status = "pending"
    /\ \E i \in DOMAIN sessions :
          sessions[i].taskId = call.taskId /\ sessions[i].status = "failed"

\* ---- C35 ---------------------------------------------------------------
\* an earlier session of the task of session i, of role r, is completed
CreatedAfterCompleted(i, r) ==
    \E j \in 1..(i - 1) :
        /\ sessions[j].taskId = sessions[i].taskId
        /\ sessions[j].agentType = r
        /\ sessions[j].status = "completed"

\* C35: every coder session was created for a task that had a completed
\* planner session, and every reviewer session for a task that had a
\* completed coder session.
C35_StagePrerequisites ==
    \A i \in DOMAIN sessions :
        /\ sessions[i].agentType = "coder" => CreatedAfterCompleted(i, "planner")
        /\ sessions[i].agentType = "reviewer" => CreatedAfterCompleted(i, "coder")

C35_Witness ==
    /\ call.kind = "resume" /\ call.pc = "ea_start" /\ call.role = "coder"
    /\ CreatedAfterCompleted(call.sessionId, "planner")
    /\ \E k \in EarlierSessions :
          sessions[k].agentType = "coder" /\ sessions[k].status = "failed"

\* ---- C36 ---------------------------------------------------------------
\* C36: no step changes a task whose stored status is completed or creates
\* a session for it.
C36_CompletedIsFinal ==
    [][\A t \in DOMAIN tasks :
          tasks[t].status = "completed" =>
              /\ tasks'[t] = tasks[t]
              /\ \A i \in DOMAIN sessions' \ DOMAIN sessions :
                    sessions'[i].taskId # t]_vars

C36_Witness ==
    /\ call.kind = "resume" /\ ReturnedStatus("threw")
    /\ Len(tasks) = 1 /\ tasks[1].status = "completed"
    /\ Len(sessions) = 3

\* ---- C37 ---------------------------------------------------------------
\* a resumeOrchestration call of a task, without skipReview and with all
\* three agents, has ended and every stage it ran succeeded
FullResumeEnded ==
    /\ call.kind = "resume" /\ call.pc = "done" /\ call.taskId # 0
    /\ ~call.skipReview /\ call.agents = Roles
    /\ \A i \in DOMAIN call.agentResults : call.agentResults[i].success

\* C37: such a call ends with the task stored as completed with no error
\* and with a completed session of each of planner, coder and reviewer.
C37_ResumeCompletesTask ==
    FullResumeEnded =>
        /\ ReturnedStatus("completed")
        /\ tasks[call.taskId].status = "completed"
        /\ tasks[call.taskId].error = None
        /\ \A r \in Roles : CompletedOf(CallTaskSessions, r) # {}

\* ---- C38 ---------------------------------------------------------------
\* the stages the call in flight may still begin
StagesAhead(c) ==
    IF c.kind = "run"
    THEN (IF c.role = "none" THEN 3 ELSE 3 - RoleIdx(c.role))
    ELSE IF c.pc = "r_load" THEN 3 ELSE Len(c.toExec)

\* where the call is within its current stage, counted from the end
\* of the stage
StepsAhead(pc) ==
    CASE pc = "r_load" -> 7
      [] pc = "ea_create" -> 6
      [] pc = "ea_start" -> 5
      [] pc = "ea_execute" -> 4
      [] pc = "ea_finish" -> 3
      [] pc = "after" -> 2
      [] pc \in {"o_planned", "o_coded", "r_loop"} -> 1
      [] pc = "catch" -> 0

\* a bound on the steps the call in flight still takes
Rank(c) == 8 * StagesAhead(c) + StepsAhead(c.pc)

\* the calls as C38 has them end
EndsAsStated(c) ==
    \/ c.ret[1].status \in {"completed", "failed"}
    \/ c.kind = "resume" /\ c.ret[1].status = "threw"
                         /\ c.ret[1].error = Some(NothingToResume)

\* the statement without the rejected configurations
C38_AsStated == call.pc = "done" => EndsAsStated(call)

\* C38: every step of a call brings it closer to its end, it invokes each
\* agent at most once, three times at most, and it ends with Completed or
\* Failed, or, for resumeOrchestration, by throwing the nothing-to-resume
\* error, or, for orchestrateAgents given a rejected configuration, by
\* throwing the configuration error.
C38_CallsTerminate ==
    [][/\ InCall /\ call'.pc # "idle" /\ call'.pc # "done" =>
             Rank(call') < Rank(call) /\ Rank(call') >= 0
       /\ Len(invocations') <= 3
       /\ \A i, j \in DOMAIN invocations' :
             i # j => invocations'[i].role # invocations'[j].role
       /\ call'.pc = "done" =>
             \/ EndsAsStated(call')
             \/ /\ call'.kind = "run" /\ BadConfig(call')
                /\ call'.ret[1].status = "threw"
                /\ call'.ret[1].error \in ConfigErrors]_vars

C38_Witness ==
    /\ call.kind = "resume" /\ ReturnedStatus("completed")
    /\ InvokedSeq = <<"planner", "coder", "reviewer">>
    /\ Len(call.agentResults) = 3
    /\ tasks[call.taskId].status = "completed"

\* ---- C39 ---------------------------------------------------------------
\* the stages a resumeOrchestration call with all three agents would find
\* to execute for task t over the sessions ss
WouldExecute(ss, t) ==
    Range(AgentsToExecute(
        LoadSessions(ss, getAgentSessionsByTask(ss, t),
            [agentResults |-> <<>>, completedAgents |-> {},
             planContext |-> None, codeChanges |-> <<>>]).completedAgents,
        FALSE, Roles))

\* the completeAgentSession write of a successful stage is rejected
CompleteWriteRejected ==
    /\ call.pc = "ea_finish" /\ call.out[1].kind = "ok"
    /\ faultsLeft' = faultsLeft - 1

\* C39: when the completeAgentSession write is rejected after the agent
\* returned success, executeAgent catches the error, writes the session
\* failed and returns a failure result; the call then marks the task failed
\* and returns Failed, and a later resumeOrchestration finds the stage still
\* to execute.
C39_CompleteWriteFailure ==
    [][/\ CompleteWriteRejected =>
             /\ call'.pc = "ea_finish" /\ call'.out[1].kind = "caught"
             /\ call'.out[1].content = call.out[1].content
             /\ sessions' = sessions /\ tasks' = tasks
       /\ call.pc = "ea_finish" /\ call.out[1].kind = "caught" /\ call'.pc = "after" =>
             /\ sessions'[call.sessionId].status = "failed"
             /\ ~call'.res[1].success
             /\ call'.res[1].error = Some(FaultMsg)
       /\ call.pc = "after" /\ call.out[1].kind = "caught" /\ faultsLeft' = faultsLeft =>
             /\ call'.pc = "done"
             /\ call'.ret[1].status = "failed"
             /\ tasks'[call.taskId].status = "failed"
             /\ tasks'[call.taskId].error = Some(FaultMsg)
             /\ call.role \in WouldExecute(sessions', call.taskId)]_vars

C39_Witness ==
    /\ call.kind = "run" /\ ReturnedStatus("failed")
    /\ call.role = "coder" /\ call.out[1].kind = "caught" /\ call.out[1].content = "A"
    /\ sessions[call.sessionId].status = "failed"
    /\ tasks[call.taskId].status = "failed"
    /\ "coder" \in WouldExecute(sessions, call.taskId)
    /\ "planner" \notin WouldExecute(sessions, call.taskId)

\* ---- C40 ---------------------------------------------------------------
\* role r has no completed session with a result in the task of the call in
\* flight, and it is not a reviewer left out by skipReview or by the agents
SelectedWithoutPlanOnly(r) ==
    /\ \A i \in CallTaskSessions :
           sessions[i].agentType = r => ~IsCompletedSession(sessions[i])
    /\ ~(r = "reviewer" /\ (call.skipReview \/ "reviewer" \notin call.agents))

====
